---- MODULE Spec2Model ----
(***************************************************************************)
(* interva: endpoints and intervals over an ordered element type T.        *)
(*                                                                         *)
(* Endpoint<T> (src/src/endpoint.rs) and Interval<T> (src/src/lib.rs) are  *)
(* immutable values; every operation is a pure function.  The state        *)
(* machine binds two interval values a and b with the library's            *)
(* constructors and applies one operation at a time, recording the         *)
(* operation in op and what it returned in out.                            *)
(*                                                                         *)
(* Two element types are modelled.  Spec instantiates T with a totally     *)
(* ordered type (an integer type such as i32: Ord + Eq).  SpecF            *)
(* instantiates T with a floating-point type (f64, the default type        *)
(* parameter of Interval): PartialOrd + PartialEq only, with a NaN that    *)
(* is incomparable with and unequal to every value, itself included.       *)
(***************************************************************************)
EXTENDS Integers, FiniteSets

VARIABLES a, b, op, out

vars == <<a, b, op, out>>

\* Largest element value an endpoint is built from.
MaxVal == 1

\* Element values endpoints are built from when T is totally ordered.
Values == 0 .. MaxVal

\* Element values membership is asked of: one value below and one above
\* every endpoint value stand for all the other values of the integer type.
Probes == (0 - 1) .. (MaxVal + 1)

\* The NaN of a floating-point T, encoded as an integer outside Probes.
NaN == 0 - (MaxVal + 2)

\* Element values when T is a floating-point type.
FValues == Values \cup {NaN}

----------------------------------------------------------------------------
(* std::cmp::Ordering and Option<Ordering>: Some(o) is written o.          *)

Less == "Less"

Equal == "Equal"

Greater == "Greater"

None == "None"

\* The outcome of Option::unwrap on None.
Panic == "panic"

\* GT and LT of endpoint.rs.
GT == Greater

LT == Less

----------------------------------------------------------------------------
(* The element type T.                                                     *)

\* T::partial_cmp: the integer order; NaN compares with nothing.
T_partial_cmp(x, y) ==
    IF x = NaN \/ y = NaN THEN None
    ELSE IF x < y THEN Less
    ELSE IF x > y THEN Greater
    ELSE Equal

\* T::eq: NaN is equal to nothing.
T_eq(x, y) == x # NaN /\ y # NaN /\ x = y

----------------------------------------------------------------------------
(* Endpoint<T>                                                             *)

Closed(x) == [kind |-> "Closed", val |-> x]

LOpen(x) == [kind |-> "LOpen", val |-> x]

ROpen(x) == [kind |-> "ROpen", val |-> x]

PosInf == [kind |-> "PosInf"]

NegInf == [kind |-> "NegInf"]

\* Every Endpoint<T> value with wrapped values in D.
Endpoints(D) ==
    {Closed(x) : x \in D} \cup {LOpen(x) : x \in D} \cup {ROpen(x) : x \in D}
        \cup {PosInf, NegInf}

IsFinite(e) == e.kind \in {"Closed", "LOpen", "ROpen"}

\* #[derive(PartialEq)] on Endpoint: same variant and equal wrapped values.
Endpoint_eq(x, y) ==
    /\ x.kind = y.kind
    /\ IsFinite(x) => T_eq(x.val, y.val)

\* A slip a maintainer could make in cmp_or: the tie is passed through
\* instead of being replaced by eq_fallback.
cmp_or_NoFallback(x, y, eq_fallback) ==
    T_partial_cmp(x, y)

\* A slip a maintainer could make in cmp_or: unwrap_or(eq_fallback) on the
\* element comparison, so that incomparable values take the fallback.
cmp_or_UnwrapOr(x, y, eq_fallback) ==
    LET ord == T_partial_cmp(x, y)
    IN  IF ord = None \/ ord = Equal THEN eq_fallback ELSE ord

cmp_or(x, y, eq_fallback) ==
    LET ord == T_partial_cmp(x, y)
    IN  IF ord # None
        THEN IF ord = Equal THEN eq_fallback ELSE ord
        ELSE None

\* <Endpoint<T> as PartialOrd>::partial_cmp: the arms of the match in order.
Endpoint_partial_cmp(self, other) ==
    CASE self.kind = "Closed" /\ other.kind = "Closed" -> T_partial_cmp(self.val, other.val)
      [] self.kind = "LOpen" /\ other.kind = "LOpen" -> T_partial_cmp(self.val, other.val)
      [] self.kind = "ROpen" /\ other.kind = "ROpen" -> T_partial_cmp(self.val, other.val)
      [] self.kind = "Closed" /\ other.kind = "LOpen" -> cmp_or(self.val, other.val, LT)
      [] self.kind = "Closed" /\ other.kind = "ROpen" -> cmp_or(self.val, other.val, GT)
      [] self.kind = "LOpen" /\ other.kind = "Closed" -> cmp_or(self.val, other.val, GT)
      [] self.kind = "LOpen" /\ other.kind = "ROpen" -> cmp_or(self.val, other.val, GT)
      [] self.kind = "ROpen" /\ other.kind = "Closed" -> cmp_or(self.val, other.val, LT)
      [] self.kind = "ROpen" /\ other.kind = "LOpen" -> cmp_or(self.val, other.val, LT)
      [] self.kind = "PosInf" /\ other.kind = "PosInf" -> Equal
      [] self.kind = "NegInf" /\ other.kind = "NegInf" -> Equal
      [] self.kind = "PosInf" /\ other.kind # "PosInf" -> Greater
      [] self.kind = "NegInf" /\ other.kind # "NegInf" -> Less
      [] IsFinite(self) /\ other.kind = "PosInf" -> Less
      [] IsFinite(self) /\ other.kind = "NegInf" -> Greater

\* <Endpoint<T> as Ord>::cmp: partial_cmp(other).unwrap().
Endpoint_cmp(self, other) ==
    LET r == Endpoint_partial_cmp(self, other)
    IN  IF r = None THEN Panic ELSE r

\* PartialOrd's provided comparison operators on Endpoint.
Endpoint_gt(x, y) == Endpoint_partial_cmp(x, y) = Greater

Endpoint_ge(x, y) == Endpoint_partial_cmp(x, y) \in {Greater, Equal}

Endpoint_le(x, y) == Endpoint_partial_cmp(x, y) \in {Less, Equal}

\* A slip: max written with the test of min.
Endpoint_max_Min(self, other) ==
    IF Endpoint_cmp(self, other) = Greater THEN other ELSE self

\* Ord's provided max: other unless self compares Greater.
Endpoint_max(self, other) ==
    IF Endpoint_cmp(self, other) = Greater THEN self ELSE other

\* Ord's provided min: self unless self compares Greater.
Endpoint_min(self, other) ==
    IF Endpoint_cmp(self, other) = Greater THEN other ELSE self

----------------------------------------------------------------------------
(* Interval<T>                                                             *)

new(left, right) == [left |-> left, right |-> right]

EMPTY == new(PosInf, NegInf)

ALL == new(NegInf, PosInf)

ge(x) == new(Closed(x), PosInf)

le(x) == new(NegInf, Closed(x))

gt(x) == new(LOpen(x), PosInf)

lt(x) == new(NegInf, ROpen(x))

open(left, right) == new(LOpen(left), ROpen(right))

closed(left, right) == new(Closed(left), Closed(right))

lcro(left, right) == new(Closed(left), ROpen(right))

lorc(left, right) == new(LOpen(left), Closed(right))

only(x) == closed(x, x)

\* Every Interval<T> value with wrapped values in D.
Intervals(D) == {new(l, r) : l \in Endpoints(D), r \in Endpoints(D)}

\* A slip: emptiness written as the negation of left <= right.
is_empty_NotLe(self) == ~Endpoint_le(self.left, self.right)

is_empty(self) == Endpoint_gt(self.left, self.right)

\* #[derive(PartialEq)] on Interval: both fields equal.
Interval_eq(self, other) ==
    /\ Endpoint_eq(self.left, other.left)
    /\ Endpoint_eq(self.right, other.right)

is_all(self) == Interval_eq(self, ALL)

\* A slip: the short-circuit for two empty intervals left out.
Interval_partial_cmp_NoEmpty(self, other) ==
    IF Endpoint_eq(self.left, other.left) /\ Endpoint_eq(self.right, other.right)
    THEN Equal
    ELSE IF Endpoint_ge(self.left, other.left) /\ Endpoint_le(self.right, other.right)
    THEN Less
    ELSE IF Endpoint_le(self.left, other.left) /\ Endpoint_ge(self.right, other.right)
    THEN Greater
    ELSE None

\* <Interval<T> as PartialOrd>::partial_cmp: the four tests in order.
Interval_partial_cmp(self, other) ==
    IF is_empty(self) /\ is_empty(other)
    THEN Equal
    ELSE IF Endpoint_eq(self.left, other.left) /\ Endpoint_eq(self.right, other.right)
    THEN Equal
    ELSE IF Endpoint_ge(self.left, other.left) /\ Endpoint_le(self.right, other.right)
    THEN Less
    ELSE IF Endpoint_le(self.left, other.left) /\ Endpoint_ge(self.right, other.right)
    THEN Greater
    ELSE None

\* PartialOrd's provided <= and >= on Interval.
Interval_leq(self, other) == Interval_partial_cmp(self, other) \in {Less, Equal}

Interval_geq(self, other) == Interval_partial_cmp(self, other) \in {Greater, Equal}

\* A slip: the left bound tested strictly.
div_ref_Strict(self, rhs) ==
    LET v == Closed(rhs)
    IN  Endpoint_gt(v, self.left) /\ Endpoint_le(v, self.right)

\* <&Interval<T> as Div<T>>::div
div_ref(self, rhs) ==
    LET v == Closed(rhs)
    IN  Endpoint_ge(v, self.left) /\ Endpoint_le(v, self.right)

\* <Interval<T> as Div<T>>::div
div_val(self, rhs) ==
    LET v == Closed(rhs)
    IN  Endpoint_ge(v, self.left) /\ Endpoint_le(v, self.right)

\* A slip: the right endpoint taken with max as well.
mul_MaxRight(self, rhs) ==
    new(Endpoint_max(self.left, rhs.left), Endpoint_max(self.right, rhs.right))

\* <Interval<T> as Mul>::mul
mul(self, rhs) ==
    new(Endpoint_max(self.left, rhs.left), Endpoint_min(self.right, rhs.right))

----------------------------------------------------------------------------
(* The state machine.                                                      *)

Slots == {"a", "b"}

\* A client binds a, then b, then applies one operation to what is bound:
\* op is "init", "let a", "let b" and then the name of the operation.
Before(s) == IF s = "a" THEN "init" ELSE "let a"

\* `let a = I` or `let b = I`: the value built is bound; nothing is returned.
Bind(s, I) ==
    /\ a' = IF s = "a" THEN I ELSE a
    /\ b' = IF s = "b" THEN I ELSE b
    /\ op' = IF s = "a" THEN "let a" ELSE "let b"
    /\ out' = "()"

\* a is bound and no operation has been applied yet.
Bound1 == op \in {"let a", "let b"}

\* a and b are bound and no operation has been applied yet.
Bound2 == op = "let b"

\* An operation returns r and leaves its operands alone.
Return(name, r) ==
    /\ op' = name
    /\ out' = r
    /\ UNCHANGED <<a, b>>

\* Before anything is bound a and b hold the two associated constants.
Init ==
    /\ a = EMPTY
    /\ b = ALL
    /\ op = "init"
    /\ out = "()"

Do_new(D, S) == \E s \in S, l \in Endpoints(D), r \in Endpoints(D) :
    /\ op = Before(s)
    /\ Bind(s, new(l, r))

Do_EMPTY(S) == \E s \in S :
    /\ op = Before(s)
    /\ Bind(s, EMPTY)

Do_ALL(S) == \E s \in S :
    /\ op = Before(s)
    /\ Bind(s, ALL)

Do_ge(D, S) == \E s \in S, x \in D :
    /\ op = Before(s)
    /\ Bind(s, ge(x))

Do_le(D, S) == \E s \in S, x \in D :
    /\ op = Before(s)
    /\ Bind(s, le(x))

Do_gt(D, S) == \E s \in S, x \in D :
    /\ op = Before(s)
    /\ Bind(s, gt(x))

Do_lt(D, S) == \E s \in S, x \in D :
    /\ op = Before(s)
    /\ Bind(s, lt(x))

Do_open(D, S) == \E s \in S, l \in D, r \in D :
    /\ op = Before(s)
    /\ Bind(s, open(l, r))

Do_closed(D, S) == \E s \in S, l \in D, r \in D :
    /\ op = Before(s)
    /\ Bind(s, closed(l, r))

Do_lcro(D, S) == \E s \in S, l \in D, r \in D :
    /\ op = Before(s)
    /\ Bind(s, lcro(l, r))

Do_lorc(D, S) == \E s \in S, l \in D, r \in D :
    /\ op = Before(s)
    /\ Bind(s, lorc(l, r))

Do_only(D, S) == \E s \in S, x \in D :
    /\ op = Before(s)
    /\ Bind(s, only(x))

Do_is_empty ==
    /\ Bound1
    /\ Return("is_empty", is_empty(a))

Do_is_all ==
    /\ Bound1
    /\ Return("is_all", is_all(a))

Do_eq ==
    /\ Bound2
    /\ Return("eq", Interval_eq(a, b))

Do_partial_cmp ==
    /\ Bound2
    /\ Return("partial_cmp", Interval_partial_cmp(a, b))

Do_div_ref(P) == \E x \in P :
    /\ Bound1
    /\ Return("div_ref", [v |-> x, r |-> div_ref(a, x)])

Do_div_val(P) == \E x \in P :
    /\ Bound1
    /\ Return("div_val", [v |-> x, r |-> div_val(a, x)])

Do_mul ==
    /\ Bound2
    /\ Return("mul", mul(a, b))

\* Endpoint comparison, applied to the two endpoints held in a.
Do_Endpoint_partial_cmp ==
    /\ Bound1
    /\ Return("Endpoint::partial_cmp", Endpoint_partial_cmp(a.left, a.right))

Do_Endpoint_cmp ==
    /\ Bound1
    /\ Return("Endpoint::cmp", Endpoint_cmp(a.left, a.right))

\* T totally ordered (Ord + Eq): every operation is available.
Next ==
    \/ Do_new(Values, Slots)
    \/ Do_EMPTY(Slots)
    \/ Do_ALL(Slots)
    \/ Do_ge(Values, Slots)
    \/ Do_le(Values, Slots)
    \/ Do_gt(Values, Slots)
    \/ Do_lt(Values, Slots)
    \/ Do_open(Values, Slots)
    \/ Do_closed(Values, Slots)
    \/ Do_lcro(Values, Slots)
    \/ Do_lorc(Values, Slots)
    \/ Do_only(Values, Slots)
    \/ Do_is_empty
    \/ Do_is_all
    \/ Do_eq
    \/ Do_partial_cmp
    \/ Do_div_ref(Probes)
    \/ Do_div_val(Probes)
    \/ Do_mul
    \/ Do_Endpoint_partial_cmp
    \/ Do_Endpoint_cmp

Spec == Init /\ [][Next]_vars

\* T a floating-point type (PartialOrd + PartialEq + Copy, neither Ord nor
\* Eq): Interval's partial_cmp (T: Eq) and mul (Endpoint<T>: Ord) and
\* Endpoint's cmp (T: Ord) do not exist for it.  One interval is bound.
NextF ==
    \/ Do_new(FValues, {"a"})
    \/ Do_EMPTY({"a"})
    \/ Do_ALL({"a"})
    \/ Do_ge(FValues, {"a"})
    \/ Do_le(FValues, {"a"})
    \/ Do_gt(FValues, {"a"})
    \/ Do_lt(FValues, {"a"})
    \/ Do_open(FValues, {"a"})
    \/ Do_closed(FValues, {"a"})
    \/ Do_lcro(FValues, {"a"})
    \/ Do_lorc(FValues, {"a"})
    \/ Do_only(FValues, {"a"})
    \/ Do_is_empty
    \/ Do_is_all
    \/ Do_div_ref(Probes \cup {NaN})
    \/ Do_div_val(Probes \cup {NaN})
    \/ Do_Endpoint_partial_cmp

SpecF == Init /\ [][NextF]_vars

----------------------------------------------------------------------------
(* Reference notions the properties are stated against.                    *)

\* The position of an endpoint on the line, as the documentation of
\* Endpoint gives it: NegInf < ROpen(x) < Closed(x) < LOpen(x) < PosInf, and
\* every endpoint on x below every endpoint on y when x < y.
RefRank(e) ==
    CASE e.kind = "NegInf" -> 0 - 1
      [] e.kind = "ROpen" -> 3 * e.val
      [] e.kind = "Closed" -> 3 * e.val + 1
      [] e.kind = "LOpen" -> 3 * e.val + 2
      [] e.kind = "PosInf" -> 3 * (MaxVal + 1)

RefCmp(x, y) ==
    IF RefRank(x) < RefRank(y) THEN Less
    ELSE IF RefRank(x) > RefRank(y) THEN Greater
    ELSE Equal

\* The comparison of two endpoints of which at least one is PosInf or
\* NegInf, from the two variants alone.
SentinelRule(k1, k2) ==
    IF k1 = k2 THEN Equal
    ELSE IF k1 = "PosInf" \/ k2 = "NegInf" THEN Greater
    ELSE Less

\* A is a subset of B: every value in A is in B.
IsSubset(A, B) == \A v \in Probes : div_val(A, v) => div_val(B, v)

----------------------------------------------------------------------------
(* Properties.                                                             *)

\* C1: for a totally ordered T, Endpoint's partial_cmp and cmp agree with
\* the reference order on every pair of endpoints: NegInf below and PosInf
\* above everything else and equal only to themselves, endpoints on x
\* below endpoints on y when x < y, ROpen(x) < Closed(x) < LOpen(x), and
\* same-kind endpoints on the same value equal.
C1_EndpointOrder ==
    op \in {"Endpoint::partial_cmp", "Endpoint::cmp"}
        => out = RefCmp(a.left, a.right)

C1_Witness ==
    /\ op = "Endpoint::cmp"
    /\ a = new(ROpen(1), Closed(1))
    /\ out = Less

\* C2: A <= B holds exactly when A is a subset of B, for all intervals,
\* those with left > right included; every empty interval is <= every
\* interval.
C2_SubsetOrder ==
    op = "partial_cmp" =>
        /\ (out \in {Less, Equal}) <=> IsSubset(a, b)
        /\ is_empty(a) => out \in {Less, Equal}

\* C3: Interval's partial_cmp is a partial order on all constructible
\* intervals: A compares Equal to A; A <= B and B <= C give A <= C; and if
\* A compares Equal to B and B compares Less, Greater or Equal to C then A
\* compares the same way to C.
C3_PartialOrder ==
    op = "partial_cmp" =>
        /\ Interval_partial_cmp(a, a) = Equal
        /\ \A c \in Intervals(Values) :
            /\ Interval_leq(a, b) /\ Interval_leq(b, c) => Interval_leq(a, c)
            /\ out = Equal /\ Interval_partial_cmp(b, c) # None
                => Interval_partial_cmp(a, c) = Interval_partial_cmp(b, c)

C5_Original ==
    op = "is_empty" =>
        /\ Endpoint_partial_cmp(a.left, a.right) = None => out \notin BOOLEAN
        /\ (out = TRUE) <=> (Endpoint_partial_cmp(a.left, a.right) = Greater)

\* C5, as amended: is_empty always returns a boolean; when the endpoints
\* are order-incomparable it answers false; it answers true exactly when
\* left > right is defined and holds.
C5_IsEmptyBoolean ==
    op = "is_empty" =>
        /\ out \in BOOLEAN
        /\ Endpoint_partial_cmp(a.left, a.right) = None => out = FALSE
        /\ out <=> (Endpoint_partial_cmp(a.left, a.right) = Greater)

C5_Witness ==
    /\ op = "is_empty"
    /\ a = closed(NaN, 0)
    /\ Endpoint_partial_cmp(a.left, a.right) = None
    /\ out = FALSE

\* C6: for every interval I, left > right included, I * EMPTY and
\* EMPTY * I are empty, and I * ALL and ALL * I have the endpoints of I.
C6_MulEmptyAll ==
    op = "mul" =>
        /\ (a = EMPTY \/ b = EMPTY) => is_empty(out)
        /\ b = ALL => (out.left = a.left /\ out.right = a.right)
        /\ a = ALL => (out.left = b.left /\ out.right = b.right)

C6_Witness ==
    /\ op = "mul"
    /\ a = closed(1, 0)
    /\ b = ALL
    /\ out = closed(1, 0)

\* C7: A * B and B * A have the same left and the same right endpoint, also
\* when endpoints of A and B are on the same value with different kinds.
C7_MulCommutes ==
    op = "mul" =>
        /\ out.left = mul(b, a).left
        /\ out.right = mul(b, a).right

C7_Witness ==
    /\ op = "mul"
    /\ a = closed(1, 1)
    /\ b = open(1, 1)
    /\ out = open(1, 1)

\* C8: for a partially ordered T, Endpoint's partial_cmp returns None
\* exactly when both endpoints are finite and their values are
\* incomparable; with PosInf or NegInf on either side the result is
\* defined and is decided by the two variants alone, PosInf against NegInf
\* giving Greater and each of the two equal to itself.
C8_PartialEndpointOrder ==
    op = "Endpoint::partial_cmp" =>
        LET x == a.left
            y == a.right
        IN  /\ (out = None) <=>
                    /\ IsFinite(x)
                    /\ IsFinite(y)
                    /\ T_partial_cmp(x.val, y.val) = None
            /\ ~(IsFinite(x) /\ IsFinite(y)) => out = SentinelRule(x.kind, y.kind)
            /\ (x = PosInf /\ y = NegInf) => out = Greater

C8_Witness ==
    /\ op = "Endpoint::partial_cmp"
    /\ a = new(LOpen(NaN), Closed(0))
    /\ out = None

\* C9: two intervals that are both empty by is_empty compare Equal, so
\* both A <= B and A >= B hold, also when they are unequal under ==;
\* A == B holds only when the left endpoints are equal and the right
\* endpoints are equal.
C9_EmptiesEqual ==
    /\ (op = "partial_cmp" /\ is_empty(a) /\ is_empty(b)) =>
            /\ out = Equal
            /\ Interval_leq(a, b)
            /\ Interval_geq(a, b)
    /\ op = "eq" => (out <=> (a.left = b.left /\ a.right = b.right))

C9_Witness ==
    /\ op = "partial_cmp"
    /\ a = EMPTY
    /\ b = open(1, 1)
    /\ ~Interval_eq(a, b)
    /\ out = Equal

\* C10: for every value v, (A * B) / v iff A / v and B / v; if either
\* operand is empty then A * B contains no value.
C10_MulExact ==
    op = "mul" =>
        /\ \A v \in Probes : div_val(out, v) <=> (div_val(a, v) /\ div_val(b, v))
        /\ (is_empty(a) \/ is_empty(b)) => \A v \in Probes : ~div_val(out, v)

C10_Witness ==
    /\ op = "mul"
    /\ a = closed(0, 1)
    /\ b = gt(0)
    /\ out = lorc(0, 1)
    /\ div_val(out, 1)
    /\ ~div_val(out, 0)

====
